---- MODULE Spec2Model ----
(***************************************************************************)
(* Model of encyclopedia.py: the dataset loader (ComicsDatasetManager) and *)
(* the search engine (ComicSearchService).                                 *)
(*                                                                         *)
(* A Python str is a sequence of one-character strings.  A pandas          *)
(* DataFrame is a record [cols, rows]: the set of column names and the     *)
(* sequence of rows, each row a function from cols to values.  The missing *)
(* value of pandas (NaN) is the one-element sequence NaN, which is no      *)
(* string of characters.                                                   *)
(***************************************************************************)
EXTENDS Integers, Sequences, FiniteSets, TLC

VARIABLES phase, full_data, query_history, comic_frequency, op, result

vars == <<phase, full_data, query_history, comic_frequency, op, result>>

\* Bounds of the model.
MaxRows == 2
MaxHistory == 2
MaxKeys == 12

-----------------------------------------------------------------------------
\* Strings

NaN == <<"NaN">>

isna(v) == v = NaN

\* The characters of the values in the model's tables, in increasing code
\* point order.
AsciiOrder ==
  <<" ", ".", ";", "A", "F", "H", "R", "S", "[",
    "a", "b", "c", "e", "i", "l", "m", "n", "o", "r", "s", "t", "y">>

Ord(c) == CHOOSE i \in 1..Len(AsciiOrder) : AsciiOrder[i] = c

\* str.lower() on one character.
LowerChar(c) ==
  CASE c = "A" -> "a"
    [] c = "F" -> "f"
    [] c = "H" -> "h"
    [] c = "R" -> "r"
    [] c = "S" -> "s"
    [] OTHER -> c

\* str.lower(); Series.str.lower() leaves a missing value missing.
lower(s) == IF isna(s) THEN NaN ELSE [i \in 1..Len(s) |-> LowerChar(s[i])]

\* Python's s < t on two str values: lexicographic on code points.
RECURSIVE StrLt(_, _)
StrLt(s, t) ==
  IF t = <<>> THEN FALSE
  ELSE IF s = <<>> THEN TRUE
  ELSE IF s[1] # t[1] THEN Ord(s[1]) < Ord(t[1])
  ELSE StrLt(Tail(s), Tail(t))

\* i <= pivot and i > pivot as qsort evaluates them; nan compares False
\* with nan both ways.
PyLe(a, b) == IF isna(a) \/ isna(b) THEN FALSE ELSE a = b \/ StrLt(a, b)

PyGt(a, b) == IF isna(a) \/ isna(b) THEN FALSE ELSE StrLt(b, a)

\* re.compile(pat) of Series.str.contains(pat), whose regex parameter
\* defaults to True.  Of the characters of the model "[" opens a character
\* set that nothing closes (re.error) and "." matches any character; the
\* others are literals.
ReCompiles(pat) == \A i \in 1..Len(pat) : pat[i] # "["

ReMatchAt(pat, s, k) ==
  \A i \in 1..Len(pat) : pat[i] = "." \/ pat[i] = s[k + i]

\* pat.search(s) is not None
ReSearch(pat, s) ==
  \E k \in 0..(Len(s) - Len(pat)) : ReMatchAt(pat, s, k)

\* One element of Series.str.contains(pat, na=False).
str_contains(v, pat) == IF isna(v) THEN FALSE ELSE ReSearch(pat, v)

\* One element of Series.astype(str): str(nan) is "nan" (pandas 2, where
\* astype(str) yields Python strings).
astype_str(v) == IF isna(v) THEN <<"n", "a", "n">> ELSE v

\* sep.join(parts)
RECURSIVE JoinStr(_, _)
JoinStr(sep, parts) ==
  IF parts = <<>> THEN <<>>
  ELSE IF Len(parts) = 1 THEN parts[1]
  ELSE parts[1] \o sep \o JoinStr(sep, Tail(parts))

-----------------------------------------------------------------------------
\* DataFrames

\* pd.DataFrame(): no column, no row.
EmptyDataFrame == [cols |-> {}, rows |-> <<>>]

\* rows[mask]: the rows whose mask element is True, in order.
RECURSIVE ApplyMask(_, _)
ApplyMask(rows, mask) ==
  IF rows = <<>> THEN <<>>
  ELSE (IF mask[1] THEN <<rows[1]>> ELSE <<>>)
       \o ApplyMask(Tail(rows), Tail(mask))

\* df[mask]
Masked(df, mask) == [cols |-> df.cols, rows |-> ApplyMask(df.rows, mask)]

\* list(df[col])
Column(df, col) == [i \in 1..Len(df.rows) |-> df.rows[i][col]]

\* A returned table, and a raised exception.
Returned(df) == [err |-> "none", cols |-> df.cols, rows |-> df.rows]

Raised(e) == [err |-> e, cols |-> {}, rows |-> <<>>]

-----------------------------------------------------------------------------
\* collections.Counter: the keys in insertion order, each with its count.

CounterGet(counter, key) ==
  IF \E i \in 1..Len(counter) : counter[i].key = key
  THEN LET i == CHOOSE i \in 1..Len(counter) : counter[i].key = key
       IN counter[i].count
  ELSE 0

\* counter[key] += 1
CounterInc(counter, key) ==
  IF \E i \in 1..Len(counter) : counter[i].key = key
  THEN [i \in 1..Len(counter) |->
          IF counter[i].key = key
          THEN [key |-> key, count |-> counter[i].count + 1]
          ELSE counter[i]]
  ELSE Append(counter, [key |-> key, count |-> 1])

\* for comic in titles: counter[comic] += 1
RECURSIVE CounterIncAll(_, _)
CounterIncAll(counter, titles) ==
  IF titles = <<>> THEN counter
  ELSE CounterIncAll(CounterInc(counter, titles[1]), Tail(titles))

-----------------------------------------------------------------------------
\* ComicSearchService

\* A raising call leaves the engine's history as it was.
Raise(e) ==
  /\ result' = Raised(e)
  /\ UNCHANGED <<query_history, comic_frequency>>

\* filter_by_genre that keeps the filtered table as the engine's table.
filter_by_genre_in_place(genre) ==
  /\ phase = "ready"
  /\ op' = [name |-> "filter_by_genre", genre |-> genre]
  /\ IF genre # <<"A", "l", "l">>
     THEN IF "Genre" \notin full_data.cols
          THEN result' = Raised("KeyError") /\ full_data' = full_data
          ELSE LET filtered == Masked(full_data,
                     [i \in 1..Len(full_data.rows) |->
                        full_data.rows[i]["Genre"] = genre])
               IN result' = Returned(filtered) /\ full_data' = filtered
     ELSE result' = Returned(full_data) /\ full_data' = full_data
  /\ UNCHANGED <<phase, query_history, comic_frequency>>

filter_by_genre(genre) ==
  /\ phase = "ready"
  /\ op' = [name |-> "filter_by_genre", genre |-> genre]
  /\ IF genre # <<"A", "l", "l">>
     THEN IF "Genre" \notin full_data.cols
          THEN result' = Raised("KeyError")
          ELSE result' = Returned(Masked(full_data,
                 [i \in 1..Len(full_data.rows) |->
                    full_data.rows[i]["Genre"] = genre]))
     ELSE result' = Returned(full_data)
  /\ UNCHANGED <<phase, full_data, query_history, comic_frequency>>

\* manual_search without the early return on an empty query.
manual_search_no_empty_check(query_str) ==
  /\ phase = "ready"
  /\ op' = [name |-> "manual_search", query_str |-> query_str]
  /\ Len(query_history) < MaxHistory
  /\ IF "Title" \notin full_data.cols THEN Raise("KeyError")
     ELSE IF ~ReCompiles(lower(query_str)) THEN Raise("re.error")
     ELSE LET search_mask ==
                [i \in 1..Len(full_data.rows) |->
                   str_contains(lower(full_data.rows[i]["Title"]),
                                lower(query_str))]
              found_results == Masked(full_data, search_mask)
          IN /\ query_history' = Append(query_history, query_str)
             /\ comic_frequency' =
                  CounterIncAll(comic_frequency,
                                Column(found_results, "Title"))
             /\ result' = Returned(found_results)
  /\ UNCHANGED <<phase, full_data>>

manual_search(query_str) ==
  /\ phase = "ready"
  /\ op' = [name |-> "manual_search", query_str |-> query_str]
  /\ IF query_str = <<>>
     THEN /\ result' = Returned(full_data)
          /\ UNCHANGED <<query_history, comic_frequency>>
     ELSE /\ Len(query_history) < MaxHistory
          /\ IF "Title" \notin full_data.cols THEN Raise("KeyError")
             ELSE IF ~ReCompiles(lower(query_str)) THEN Raise("re.error")
             ELSE LET search_mask ==
                        [i \in 1..Len(full_data.rows) |->
                           str_contains(lower(full_data.rows[i]["Title"]),
                                        lower(query_str))]
                      found_results == Masked(full_data, search_mask)
                  IN /\ query_history' = Append(query_history, query_str)
                     /\ comic_frequency' =
                          CounterIncAll(comic_frequency,
                                        Column(found_results, "Title"))
                     /\ result' = Returned(found_results)
  /\ UNCHANGED <<phase, full_data>>

\* qsort, the inner function of sort_by_title.
RECURSIVE qsort(_)
qsort(items) ==
  IF Len(items) < 2 THEN items
  ELSE LET pivot == items[1]
           IsLess(i) == PyLe(i, pivot)
           IsGreater(i) == PyGt(i, pivot)
           less == SelectSeq(Tail(items), IsLess)
           greater == SelectSeq(Tail(items), IsGreater)
       IN qsort(less) \o <<pivot>> \o qsort(greater)

\* Comparing a str with nan (a float) raises TypeError; the first call of
\* qsort compares the pivot with every other item.
QsortRaises(items) ==
  /\ Len(items) >= 2
  /\ \E i \in 2..Len(items) : isna(items[i]) # isna(items[1])

\* list.reverse()
Reverse(s) == [i \in 1..Len(s) |-> s[Len(s) + 1 - i]]

\* df.set_index("Title").loc[labels]: for each label of the list, in turn,
\* every row of df whose index value is that label.
RECURSIVE LocList(_, _)
LocList(df, labels) ==
  IF labels = <<>> THEN <<>>
  ELSE ApplyMask(df.rows,
                 [i \in 1..Len(df.rows) |-> df.rows[i]["Title"] = labels[1]])
       \o LocList(df, Tail(labels))

\* The value sort_by_title(df, ascending) returns or the exception it raises.
SortByTitle(df, ascending) ==
  IF "Title" \notin df.cols THEN Raised("KeyError")
  ELSE LET title_list == Column(df, "Title")
       IN IF QsortRaises(title_list) THEN Raised("TypeError")
          ELSE LET sorted_title_list ==
                     IF ascending THEN qsort(title_list)
                     ELSE Reverse(qsort(title_list))
               IN Returned([cols |-> df.cols,
                            rows |-> LocList(df, sorted_title_list)])

\* The table sort_by_title is called on: the table the last call returned
\* (ComicAppUI.sort_results sorts current_results).
SortInputs ==
  IF result.err = "none" /\ "report" \notin DOMAIN result
  THEN {[cols |-> result.cols, rows |-> result.rows]} ELSE {}

sort_by_title(df, ascending) ==
  /\ phase = "ready"
  /\ Len(df.rows) <= MaxRows
  /\ op' = [name |-> "sort_by_title", df |-> df, ascending |-> ascending]
  /\ result' = SortByTitle(df, ascending)
  /\ UNCHANGED <<phase, full_data, query_history, comic_frequency>>

\* str(k) of a column name.
ColumnText(col) ==
  CASE col = "Name" -> <<"N", "a", "m", "e">>
    [] col = "Genre" -> <<"G", "e", "n", "r", "e">>
    [] col = "Languages" -> <<"L", "a", "n", "g", "u", "a", "g", "e", "s">>
    [] col = "Title" -> <<"T", "i", "t", "l", "e">>

\* The loop of advanced_search over search_params.items(): the narrowed
\* table, or the exception the loop raises.
RECURSIVE AdvancedFilter(_, _)
AdvancedFilter(filtered_df, search_params) ==
  IF search_params = <<>> THEN [err |-> "none", df |-> filtered_df]
  ELSE LET col == search_params[1].col
           value == search_params[1].value
       IN IF value = <<>>
          THEN AdvancedFilter(filtered_df, Tail(search_params))
          ELSE IF col \notin filtered_df.cols
          THEN [err |-> "KeyError", df |-> filtered_df]
          ELSE IF ~ReCompiles(lower(value))
          THEN [err |-> "re.error", df |-> filtered_df]
          ELSE LET col_mask ==
                     [i \in 1..Len(filtered_df.rows) |->
                        str_contains(
                          lower(astype_str(filtered_df.rows[i][col])),
                          lower(value))]
               IN AdvancedFilter(Masked(filtered_df, col_mask),
                                 Tail(search_params))

\* [f"{k}={v}" for k, v in search_params.items() if v]
RECURSIVE QueryParts(_)
QueryParts(search_params) ==
  IF search_params = <<>> THEN <<>>
  ELSE (IF search_params[1].value # <<>>
        THEN <<ColumnText(search_params[1].col) \o <<"=">>
                 \o search_params[1].value>>
        ELSE <<>>)
       \o QueryParts(Tail(search_params))

CombinedQuery(search_params) == JoinStr(<<",", " ">>, QueryParts(search_params))

advanced_search(search_params) ==
  /\ phase = "ready"
  /\ op' = [name |-> "advanced_search", search_params |-> search_params]
  /\ LET filtered == AdvancedFilter(full_data, search_params)
         combined_query == CombinedQuery(search_params)
     IN IF filtered.err # "none" THEN Raise(filtered.err)
        ELSE IF combined_query = <<>>
        THEN /\ result' = Returned(filtered.df)
             /\ UNCHANGED <<query_history, comic_frequency>>
        ELSE /\ Len(query_history) < MaxHistory
             /\ query_history' = Append(query_history, combined_query)
             /\ IF "Title" \notin filtered.df.cols
                THEN /\ result' = Raised("KeyError")
                     /\ UNCHANGED comic_frequency
                ELSE /\ comic_frequency' =
                          CounterIncAll(comic_frequency,
                                        Column(filtered.df, "Title"))
                     /\ result' = Returned(filtered.df)
  /\ UNCHANGED <<phase, full_data>>

\* The count above which a comic is listed as popular, and the length of the
\* top lists.
PopularThreshold == 100

TopN == 10

\* Counter(query_history)
CounterOf(items) == CounterIncAll(<<>>, items)

\* most_common with items of equal count in reverse insertion order.
MostCommonLastFirst(counter, n) ==
  LET Before(i, j) ==
        \/ counter[i].count > counter[j].count
        \/ counter[i].count = counter[j].count /\ i > j
      Rank(i) == Cardinality({j \in 1..Len(counter) : Before(j, i)}) + 1
      sorted == [k \in 1..Len(counter) |->
                   counter[CHOOSE i \in 1..Len(counter) : Rank(i) = k]]
  IN SubSeq(sorted, 1, IF Len(counter) < n THEN Len(counter) ELSE n)

\* Counter.most_common(n): the items by decreasing count, items of equal
\* count in insertion order (heapq.nlargest is sorted(..., reverse=True)[:n],
\* and sorted is stable), cut to the first n.
MostCommon(counter, n) ==
  LET Before(i, j) ==
        \/ counter[i].count > counter[j].count
        \/ counter[i].count = counter[j].count /\ i < j
      Rank(i) == Cardinality({j \in 1..Len(counter) : Before(j, i)}) + 1
      sorted == [k \in 1..Len(counter) |->
                   counter[CHOOSE i \in 1..Len(counter) : Rank(i) = k]]
  IN SubSeq(sorted, 1, IF Len(counter) < n THEN Len(counter) ELSE n)

\* The popular comics with count >= 100 in place of count > 100.
PopularComicsFromThreshold(counter) ==
  LET IsPopular(item) == item.count >= PopularThreshold
      popular == SelectSeq(counter, IsPopular)
  IN [i \in 1..Len(popular) |-> popular[i].key]

\* [comic for comic, count in comic_frequency.items() if count > 100]
PopularComics(counter) ==
  LET IsPopular(item) == item.count > PopularThreshold
      popular == SelectSeq(counter, IsPopular)
  IN [i \in 1..Len(popular) |-> popular[i].key]

\* [q for q, _ in Counter(query_history).most_common(10)]
TopKeys(counter) ==
  LET top == MostCommon(counter, TopN)
  IN [i \in 1..Len(top) |-> top[i].key]

\* f"  - {comic}\n": the text of a missing title is "nan".
ItemLine(v) ==
  <<"  - ">> \o (IF isna(v) THEN <<"n", "a", "n">> ELSE v) \o <<"\n">>

NoneLine == <<"  None\n">>

\* The lines a section appends after its heading.
SectionLines(items) ==
  IF items = <<>> THEN <<NoneLine>>
  ELSE [i \in 1..Len(items) |-> ItemLine(items[i])]

PopularHeading == <<"Comics appearing in over 100 searches:\n">>

QueriesHeading == <<"\nTop 10 search queries:\n">>

ResultsHeading == <<"\nTop 10 search results:\n">>

\* report_contents, the list of lines the report is made of.
ReportContents(history, frequency) ==
  <<<<"--------- Search Report ---------\n\n">>>>
  \o <<PopularHeading>> \o SectionLines(PopularComics(frequency))
  \o <<QueriesHeading>> \o SectionLines(TopKeys(CounterOf(history)))
  \o <<ResultsHeading>> \o SectionLines(TopKeys(frequency))

\* "".join(report_contents)
GenerateReport(history, frequency) ==
  JoinStr(<<>>, ReportContents(history, frequency))

\* A returned report.
Reported(report) ==
  [err |-> "none", cols |-> {}, rows |-> <<>>, report |-> report]

generate_report_data ==
  /\ phase = "ready"
  /\ op' = [name |-> "generate_report_data"]
  /\ result' = Reported(GenerateReport(query_history, comic_frequency))
  /\ UNCHANGED <<phase, full_data, query_history, comic_frequency>>

-----------------------------------------------------------------------------
\* ComicsDatasetManager

Fantasy == <<"F", "a", "n", "t", "a", "s", "y">>

Horror == <<"H", "o", "r", "r", "o", "r">>

ScienceFiction ==
  <<"S", "c", "i", "e", "n", "c", "e", " ", "F", "i", "c", "t", "i", "o", "n">>

Romance == <<"R", "o", "m", "a", "n", "c", "e">>

\* The permitted list with a fourth genre in it.
permitted_genres_with_romance == {Fantasy, Horror, ScienceFiction, Romance}

permitted_genres == {Fantasy, Horror, ScienceFiction}

\* encode/decode with 'replace' changes no character of the model.
handle_special_characters(txt) == IF isna(txt) THEN <<>> ELSE txt

\* pd.merge(recs, titles, on=id_key, how="left"): each record row once per
\* titles row of its identifier, and once when there is none.
RECURSIVE MergeTitles(_, _)
MergeTitles(recs, titles) ==
  IF recs = <<>> THEN <<>>
  ELSE LET IsMatch(t) == t = recs[1].id
           n == Len(SelectSeq(titles, IsMatch))
       IN [i \in 1..(IF n = 0 THEN 1 ELSE n) |-> recs[1]]
          \o MergeTitles(Tail(recs), titles)

\* Series.unique(): the first occurrence of each value, in order.
RECURSIVE Unique(_)
Unique(s) ==
  IF s = <<>> THEN <<>>
  ELSE LET IsOther(x) == x # s[1]
       IN <<s[1]>> \o Unique(SelectSeq(Tail(s), IsOther))

\* The Name the grouped names give an identifier: "; ".join of the unique
\* non-missing names of its group, and NaN when the left merge finds no group.
GroupedName(names, id) ==
  LET InGroup(r) == r.id = id
      NotNa(v) == ~isna(v)
      group == SelectSeq(names, InGroup)
      values == [i \in 1..Len(group) |-> group[i].Name]
  IN IF group = <<>> THEN NaN
     ELSE JoinStr(<<";", " ">>, Unique(SelectSeq(values, NotNa)))

\* One row of full_data before the genre restriction.
MergedRow(rec, names, languages) ==
  LET base ==
        ("BL record ID" :> rec.id)
        @@ [Title |-> handle_special_characters(rec.Title),
            Genre |-> handle_special_characters(rec.Genre),
            Name |-> handle_special_characters(GroupedName(names, rec.id))]
  IN IF languages THEN base @@ [Languages |-> rec.Languages] ELSE base

\* The table load_data leaves in full_data.
LoadData(src) ==
  IF ~src.readable THEN EmptyDataFrame
  ELSE LET merge_temp == MergeTitles(src.recs, src.titles)
           merged == [i \in 1..Len(merge_temp) |->
                        MergedRow(merge_temp[i], src.names, src.languages)]
           isin == [i \in 1..Len(merged) |->
                      merged[i]["Genre"] \in permitted_genres]
       IN [cols |-> {"BL record ID", "Title", "Genre", "Name"}
                    \cup (IF src.languages THEN {"Languages"} ELSE {}),
           rows |-> ApplyMask(merged, isin)]

-----------------------------------------------------------------------------
\* Inputs

\* Sequences of distinct elements of S, of length at most n.
SeqUpTo(S, n) ==
  {s \in UNION {[1..k -> S] : k \in 0..n} :
     \A i, j \in 1..Len(s) : i # j => s[i] # s[j]}

RecordRows ==
  {[id |-> 1, Title |-> <<"A", "b">>, Genre |-> Fantasy, Languages |-> NaN],
   [id |-> 2, Title |-> <<"a">>, Genre |-> Romance, Languages |-> <<"a">>],
   [id |-> 3, Title |-> NaN, Genre |-> Horror, Languages |-> <<"a">>],
   [id |-> 4, Title |-> <<"A", "b">>, Genre |-> NaN, Languages |-> NaN]}

\* The identifiers of the rows of the titles source: a record may have
\* several titles.
TitleSources == {<<>>, <<1, 1, 2>>}

NameSources ==
  {<<>>,
   <<[id |-> 1, Name |-> <<"b", "a">>], [id |-> 1, Name |-> <<"a">>],
     [id |-> 1, Name |-> <<"b", "a">>], [id |-> 1, Name |-> NaN],
     [id |-> 3, Name |-> NaN]>>}

Sources ==
  {[readable |-> FALSE, recs |-> <<>>, titles |-> <<>>, names |-> <<>>,
    languages |-> FALSE]}
  \cup [readable : {TRUE}, recs : SeqUpTo(RecordRows, MaxRows),
        titles : TitleSources, names : NameSources, languages : BOOLEAN]

\* The rows of the tables an engine is constructed on directly.
TableRows ==
  {[Title |-> <<"A", "b">>, Name |-> <<"b", "a">>, Genre |-> Fantasy,
    Languages |-> NaN],
   [Title |-> <<"a">>, Name |-> NaN, Genre |-> Horror,
    Languages |-> <<"a">>],
   [Title |-> NaN, Name |-> <<"a">>, Genre |-> ScienceFiction,
    Languages |-> <<"a">>],
   [Title |-> <<"A", "b">>, Name |-> <<"a">>, Genre |-> Horror,
    Languages |-> <<"a">>]}

Tables ==
  {[cols |-> {"Title", "Name", "Genre", "Languages"}, rows |-> rows] :
     rows \in SeqUpTo(TableRows, MaxRows)}

Queries == {<<>>, <<"A">>, <<".">>, <<"[">>}

All == <<"A", "l", "l">>

Genres == {All, Fantasy, lower(Fantasy)}

SearchParams ==
  {<<[col |-> "Name", value |-> <<>>], [col |-> "Genre", value |-> <<>>]>>,
   <<[col |-> "Name", value |-> <<"A">>], [col |-> "Genre", value |-> <<"f">>]>>,
   <<[col |-> "Genre", value |-> <<>>], [col |-> "Languages", value |-> <<"a">>]>>,
   <<[col |-> "Name", value |-> <<"[">>]>>}

\* The histories and counters a caller assigns to an engine, as
\* test_generate_report_data does: n keys, the key of position k counted
\* base + ((k + shift) % m) times.
SeedLetters ==
  <<"a", "b", "c", "d", "e", "f", "g", "h", "i", "j", "k", "l", "m", "n">>

SeedKey(n, k) == <<SeedLetters[n + 1 - k]>>

SeedCount(k, m, shift, base) == base + ((k + shift) % m)

SeedFrequency(n, m, shift, base) ==
  [k \in 1..n |-> [key |-> SeedKey(n, k), count |-> SeedCount(k, m, shift, base)]]

\* The keys whose count reaches r, in the order of their positions.
SeedRound(n, m, shift, r) ==
  LET InRound(k) == SeedCount(k, m, shift, 1) >= r
      ks == SelectSeq([k \in 1..n |-> k], InRound)
  IN [i \in 1..Len(ks) |-> SeedKey(n, ks[i])]

RECURSIVE SeedRounds(_, _, _, _)
SeedRounds(n, m, shift, r) ==
  IF r > m THEN <<>>
  ELSE SeedRound(n, m, shift, r) \o SeedRounds(n, m, shift, r + 1)

SeedHistory(n, m, shift) == SeedRounds(n, m, shift, 1)

SeedSizes == {0, 3, TopN, MaxKeys}

SeedModuli == 1..3

SeedShifts == 0..1

SeedBases == {1, PopularThreshold - 1, PopularThreshold}

-----------------------------------------------------------------------------
\* The program

Init ==
  /\ phase = "new"
  /\ full_data = EmptyDataFrame
  /\ query_history = <<>>
  /\ comic_frequency = <<>>
  /\ op = [name |-> "none"]
  /\ result = Returned(EmptyDataFrame)

\* ComicSearchService.__init__
NewService(full_df) ==
  /\ full_data' = full_df
  /\ query_history' = <<>>
  /\ comic_frequency' = <<>>
  /\ phase' = "ready"

\* ComicAppUI.__init__: the manager loads the sources, the engine is built
\* on the manager's table and the table is displayed.
load_data(src) ==
  /\ phase = "new"
  /\ NewService(LoadData(src))
  /\ op' = [name |-> "load_data", src |-> src]
  /\ result' = Returned(LoadData(src))

\* An engine constructed on a table directly.
construct(full_df) ==
  /\ phase = "new"
  /\ NewService(full_df)
  /\ op' = [name |-> "construct"]
  /\ result' = Returned(full_df)

\* A caller assigns the history and the counter of an engine it has just
\* constructed.
seed(history, frequency) ==
  /\ phase = "ready"
  /\ op.name = "construct"
  /\ query_history' = history
  /\ comic_frequency' = frequency
  /\ op' = [name |-> "seed"]
  /\ UNCHANGED <<phase, full_data, result>>

Next ==
  \/ \E src \in Sources : load_data(src)
  \/ \E full_df \in Tables : construct(full_df)
  \/ \E genre \in Genres : filter_by_genre(genre)
  \/ \E df \in SortInputs, ascending \in BOOLEAN : sort_by_title(df, ascending)
  \/ \E query_str \in Queries : manual_search(query_str)
  \/ \E search_params \in SearchParams : advanced_search(search_params)
  \/ generate_report_data

Spec == Init /\ [][Next]_vars

\* The engine with callers that assign its history, as the report's test does.
NextSeeded ==
  \/ Next
  \/ \E n \in SeedSizes, m \in SeedModuli, shift \in SeedShifts,
        base \in SeedBases :
        seed(SeedHistory(n, m, shift), SeedFrequency(n, m, shift, base))

SpecSeeded == Init /\ [][NextSeeded]_vars

-----------------------------------------------------------------------------
\* Vocabulary of the properties

\* q occurs in s as a literal substring.
IsSubstring(q, s) ==
  \E k \in 0..(Len(s) - Len(q)) : \A i \in 1..Len(q) : q[i] = s[k + i]

\* The number of positions of seq that hold x.
Occurrences(seq, x) == Cardinality({i \in 1..Len(seq) : seq[i] = x})

\* The rows of seq that satisfy the row-indexed test, in order.
RowsWhere(rows, keep) == ApplyMask(rows, [i \in 1..Len(rows) |-> i \in keep])

\* Every key either counter holds and every title of the table.
CountedTitles(before, after, rows) ==
  {before[i].key : i \in 1..Len(before)}
  \cup {after[i].key : i \in 1..Len(after)}
  \cup {rows[i]["Title"] : i \in 1..Len(rows)}

\* Every title's counter grew by the number of rows of the result with it.
CountedOncePerRow(rows) ==
  \A t \in CountedTitles(comic_frequency, comic_frequency', rows) :
    CounterGet(comic_frequency', t) =
      CounterGet(comic_frequency, t)
      + Occurrences([i \in 1..Len(rows) |-> rows[i]["Title"]], t)

\* The engine's table has titles (it is not the table of a failed load).
HasTitles == "Title" \in full_data.cols

\* C1: manualSearch(q) with a non-empty q appends exactly q to the end of the
\* query history, also when no row matches, and raises every title's counter
\* by the number of rows of the returned result with that title; nothing
\* else changes in the history or the counter.  (Stated for an engine whose
\* table has a Title column.)
C1_ManualSearchRecords ==
  [][(HasTitles /\ op'.name = "manual_search" /\ op'.query_str # <<>>)
       => /\ query_history' = Append(query_history, op'.query_str)
          /\ result'.err = "none"
          /\ CountedOncePerRow(result'.rows)]_vars

\* C2: manualSearch("") returns every row of the engine's table and leaves
\* the query history and the result-frequency counter as they were, in every
\* state of the engine.
C2_EmptyQueryNoEffect ==
  [][(op'.name = "manual_search" /\ op'.query_str = <<>>)
       => /\ result'.err = "none"
          /\ result'.rows = full_data.rows
          /\ query_history' = query_history
          /\ comic_frequency' = comic_frequency]_vars

\* C2 witness: the empty query was answered by an engine that has recorded
\* searches and counted titles, over a table of two rows.
C2_Witness ==
  /\ op.name = "manual_search"
  /\ op.query_str = <<>>
  /\ Len(query_history) = 2
  /\ comic_frequency # <<>>
  /\ Len(result.rows) = 2

\* The rows a case-insensitive literal substring search for q in the titles
\* is to return.
TitleMatches(q) ==
  {i \in 1..Len(full_data.rows) :
     /\ ~isna(full_data.rows[i]["Title"])
     /\ IsSubstring(lower(q), lower(full_data.rows[i]["Title"]))}

\* C3: manualSearch(q) with a non-empty q of any characters returns exactly
\* the rows whose title is not missing and contains q as a literal substring
\* once both are lower-cased.  (Stated for an engine whose table has a Title
\* column.)
C3_ManualSearchLiteralSubstring ==
  (HasTitles /\ op.name = "manual_search" /\ op.query_str # <<>>)
    => /\ result.err = "none"
       /\ result.rows = RowsWhere(full_data.rows, TitleMatches(op.query_str))

\* A row passes a parameter when the parameter's value is empty, or the
\* row's value of the field is there, is not missing, and contains the value
\* case-insensitively.
PassesParam(row, param) ==
  \/ param.value = <<>>
  \/ /\ param.col \in DOMAIN row
     /\ ~isna(row[param.col])
     /\ IsSubstring(lower(param.value), lower(row[param.col]))

ParamMatches(search_params) ==
  {i \in 1..Len(full_data.rows) :
     \A p \in 1..Len(search_params) :
       PassesParam(full_data.rows[i], search_params[p])}

\* C4: advancedSearch(params) returns exactly the rows that, for every
\* parameter with a non-empty value, hold a non-missing value of the field
\* that contains the parameter's value case-insensitively; a row whose value
\* of a searched field is missing is never returned.  (Stated for an engine
\* whose table has a Title column.)
C4_AdvancedSearchRows ==
  (HasTitles /\ op.name = "advanced_search")
    => /\ result.err = "none"
       /\ result.rows =
            RowsWhere(full_data.rows, ParamMatches(op.search_params))

\* The parameters with a non-empty value, in the mapping's order.
NonEmptyParams(search_params) ==
  LET HasValue(p) == p.value # <<>> IN SelectSeq(search_params, HasValue)

\* 'field=value' of each parameter, joined by ', '.
Composite(params) ==
  JoinStr(<<",", " ">>,
          [i \in 1..Len(params) |->
             ColumnText(params[i].col) \o <<"=">> \o params[i].value])

\* C5: advancedSearch(params) appends the one composite string of its
\* non-empty parameters to the history and counts every title of the final
\* result once per row exactly when some parameter value is non-empty; with
\* every value empty it returns the full table and changes neither.  (Stated
\* for an engine whose table has a Title column.)
C5_AdvancedSearchRecords ==
  [][(HasTitles /\ op'.name = "advanced_search")
       => IF NonEmptyParams(op'.search_params) # <<>>
          THEN /\ query_history' =
                    Append(query_history,
                           Composite(NonEmptyParams(op'.search_params)))
               /\ result'.err = "none"
               /\ CountedOncePerRow(result'.rows)
          ELSE /\ result'.err = "none"
               /\ result'.rows = full_data.rows
               /\ query_history' = query_history
               /\ comic_frequency' = comic_frequency]_vars

\* The table has a Title column and no missing title.
AllTitled(df) ==
  /\ "Title" \in df.cols
  /\ \A i \in 1..Len(df.rows) : ~isna(df.rows[i]["Title"])

\* Each row occurs in one sequence as often as in the other.
SameRows(a, b) ==
  \A r \in {a[i] : i \in 1..Len(a)} \cup {b[i] : i \in 1..Len(b)} :
    Occurrences(a, r) = Occurrences(b, r)

\* The titles do not decrease (ascending) or do not increase (descending)
\* under the comparison of the raw strings.
TitlesOrdered(rows, ascending) ==
  \A i, j \in 1..Len(rows) :
    i < j => IF ascending
             THEN ~StrLt(rows[j]["Title"], rows[i]["Title"])
             ELSE ~StrLt(rows[i]["Title"], rows[j]["Title"])

\* C6: sortByTitle(T, ascending) returns exactly the rows of T, each input
\* row once, also when rows share a title, with the titles non-decreasing
\* when ascending and non-increasing when not.  (Stated for tables with a
\* Title column and no missing title.)
C6_SortKeepsRowsInOrder ==
  (op.name = "sort_by_title" /\ AllTitled(op.df))
    => /\ result.err = "none"
       /\ Len(result.rows) = Len(op.df.rows)
       /\ SameRows(result.rows, op.df.rows)
       /\ TitlesOrdered(result.rows, op.ascending)

\* C7: the titles of sortByTitle(sortByTitle(T, true), false) are the
\* titles of sortByTitle(T, true) reversed.  (Stated for tables with a Title
\* column and no missing title; result is sortByTitle(T, true).)
C7_DescendingIsReverse ==
  (op.name = "sort_by_title" /\ op.ascending /\ AllTitled(op.df))
    => /\ result.err = "none"
       /\ LET first == [cols |-> result.cols, rows |-> result.rows]
              second == SortByTitle(first, FALSE)
          IN /\ second.err = "none"
             /\ Column(second, "Title") = Reverse(Column(first, "Title"))

\* C8: on the empty table of a failed load manualSearch, advancedSearch and
\* filterByCategory return an empty result for every argument and never
\* raise.
C8_FailedLoadOperable ==
  (phase = "ready" /\ full_data.cols = {}
   /\ op.name \in {"manual_search", "advanced_search", "filter_by_genre"})
    => result.err = "none" /\ result.rows = <<>>

\* The parameters name the field with a non-empty value.
Searches(search_params, col) ==
  \E p \in 1..Len(search_params) :
    search_params[p].col = col /\ search_params[p].value # <<>>

\* C9: on a successfully loaded table without the optional language field,
\* advancedSearch with a non-empty value for that field does not raise: the
\* field is missing in every row and the result is empty.
C9_MissingFieldIsNull ==
  (op.name = "advanced_search"
   /\ full_data.cols # {} /\ "Languages" \notin full_data.cols
   /\ Searches(op.search_params, "Languages"))
    => result.err = "none" /\ result.rows = <<>>

\* The categories a loaded table may hold.
AllowedCategories ==
  {<<"F", "a", "n", "t", "a", "s", "y">>,
   <<"H", "o", "r", "r", "o", "r">>,
   <<"S", "c", "i", "e", "n", "c", "e", " ", "F", "i", "c", "t", "i", "o", "n">>}

\* The row of the table comes from the record.
FromRecord(row, rec) ==
  /\ row["BL record ID"] = rec.id
  /\ row["Genre"] = rec.Genre
  /\ row["Title"] = (IF isna(rec.Title) THEN <<>> ELSE rec.Title)

\* C10: after a successful load every row of the table has a category in
\* {Fantasy, Horror, Science Fiction} and comes from a record of such a
\* category, and every record of such a category has its row in the table.
C10_OnlyAllowedCategories ==
  (op.name = "load_data" /\ op.src.readable)
    => /\ \A i \in 1..Len(full_data.rows) :
            /\ full_data.rows[i]["Genre"] \in AllowedCategories
            /\ \E k \in 1..Len(op.src.recs) :
                 /\ op.src.recs[k].Genre \in AllowedCategories
                 /\ FromRecord(full_data.rows[i], op.src.recs[k])
       /\ \A k \in 1..Len(op.src.recs) :
            op.src.recs[k].Genre \in AllowedCategories
              => \E i \in 1..Len(full_data.rows) :
                   FromRecord(full_data.rows[i], op.src.recs[k])

\* C10 witness: a load kept a record of an allowed category and dropped one
\* of another category.
C10_Witness ==
  /\ op.name = "load_data"
  /\ op.src.readable
  /\ \E k \in 1..Len(op.src.recs) : op.src.recs[k].Genre \in AllowedCategories
  /\ \E k \in 1..Len(op.src.recs) : op.src.recs[k].Genre = Romance
  /\ Len(full_data.rows) = 1

\* The pieces of text that end a line of the report: the newline after an
\* entry and the fixed lines.
EndsLine(piece) ==
  piece \in {"\n", "  None\n", "--------- Search Report ---------\n\n",
             "Comics appearing in over 100 searches:\n",
             "\nTop 10 search queries:\n", "\nTop 10 search results:\n"}

\* The lines of the last report.
ReportLines ==
  LET text == result.report
      IsEnd(i) == EndsLine(text[i])
      ends == SelectSeq([i \in 1..Len(text) |-> i], IsEnd)
  IN [k \in 1..Len(ends) |->
        SubSeq(text, IF k = 1 THEN 1 ELSE ends[k - 1] + 1, ends[k])]

\* The position of the heading in the report.
HeadingAt(lines, heading) ==
  CHOOSE i \in 1..Len(lines) : lines[i] = heading

\* The lines between a heading and the line at position last.
LinesAfter(lines, heading, last) ==
  SubSeq(lines, HeadingAt(lines, heading) + 1, last)

PopularSection(lines) ==
  LinesAfter(lines, <<"Comics appearing in over 100 searches:\n">>,
             HeadingAt(lines, <<"\nTop 10 search queries:\n">>) - 1)

QueriesSection(lines) ==
  LinesAfter(lines, <<"\nTop 10 search queries:\n">>,
             HeadingAt(lines, <<"\nTop 10 search results:\n">>) - 1)

ResultsSection(lines) ==
  LinesAfter(lines, <<"\nTop 10 search results:\n">>, Len(lines))

PrintsNone(section) == section = <<<<"  None\n">>>>

\* The entries a section lists: the text of each "  - <entry>" line.
Listed(section) ==
  IF PrintsNone(section) THEN <<>>
  ELSE [i \in 1..Len(section) |-> SubSeq(section[i], 2, Len(section[i]) - 1)]

\* The text a title is printed as.
Printed(key) == IF key = NaN THEN <<"n", "a", "n">> ELSE key

\* The position at which x first occurs in seq.
FirstAt(seq, x) ==
  CHOOSE i \in 1..Len(seq) :
    seq[i] = x /\ \A j \in 1..(i - 1) : seq[j] # x

\* keys holds each entry once, in the order of first insertion; counts[k] is
\* the frequency of keys[k].  k goes before l in the ranking when it is more
\* frequent, or as frequent and inserted earlier.
GoesBefore(counts, k, l) ==
  \/ counts[k] > counts[l]
  \/ counts[k] = counts[l] /\ k < l

\* The section lists at most 10 of the entries, each once, in the order of
\* the ranking; an entry is left out only if 10 entries that go before it
\* are listed; and it prints "  None" when there is no entry.
ListsTop(section, keys, counts) ==
  LET listed == Listed(section)
      At(i) == CHOOSE k \in 1..Len(keys) : Printed(keys[k]) = listed[i]
  IN /\ Len(listed) <= 10
     /\ \A i \in 1..Len(listed) :
          \E k \in 1..Len(keys) : Printed(keys[k]) = listed[i]
     /\ \A i, j \in 1..Len(listed) :
          i < j => GoesBefore(counts, At(i), At(j))
     /\ \A k \in 1..Len(keys) :
          (\A i \in 1..Len(listed) : listed[i] # Printed(keys[k]))
            => /\ Len(listed) = 10
               /\ \A i \in 1..Len(listed) : GoesBefore(counts, At(i), k)
     /\ (keys = <<>>) <=> PrintsNone(section)

\* The distinct queries of the history in the order of their first
\* occurrence.
DistinctQueries ==
  LET IsFirst(i) == FirstAt(query_history, query_history[i]) = i
      firsts == SelectSeq([i \in 1..Len(query_history) |-> i], IsFirst)
  IN [k \in 1..Len(firsts) |-> query_history[firsts[k]]]

\* C11: sections (b) and (c) of the report each list at most 10 distinct
\* entries, the distinct history queries and the counted titles, by
\* non-increasing frequency with entries of equal frequency in the order of
\* their first insertion; an entry is left out only if 10 entries that go
\* before it are listed; a section without entries prints "  None".
C11_TopTenByFrequency ==
  op.name = "generate_report_data"
    => /\ ListsTop(QueriesSection(ReportLines), DistinctQueries,
                   [k \in 1..Len(DistinctQueries) |->
                      Occurrences(query_history, DistinctQueries[k])])
       /\ ListsTop(ResultsSection(ReportLines),
                   [k \in 1..Len(comic_frequency) |-> comic_frequency[k].key],
                   [k \in 1..Len(comic_frequency) |-> comic_frequency[k].count])

\* C11 witness: a report of an engine with more than 10 counted titles and
\* more than 10 distinct queries, where a title left out is as frequent as
\* a title listed.
C11_Witness ==
  /\ op.name = "generate_report_data"
  /\ Len(comic_frequency) > 10
  /\ Len(DistinctQueries) > 10
  /\ Len(Listed(ResultsSection(ReportLines))) = 10
  /\ \E k, l \in 1..Len(comic_frequency) :
       /\ comic_frequency[k].count = comic_frequency[l].count
       /\ \E i \in 1..10 :
            Listed(ResultsSection(ReportLines))[i] = comic_frequency[k].key
       /\ \A i \in 1..10 :
            Listed(ResultsSection(ReportLines))[i] # comic_frequency[l].key

\* C12: the first section of the report lists exactly the titles whose
\* counter is strictly greater than 100, each once, in the order of their
\* first insertion into the counter, and prints "  None" when there is none.
C12_PopularAbove100 ==
  op.name = "generate_report_data"
    => LET listed == Listed(PopularSection(ReportLines))
           At(i) == CHOOSE k \in 1..Len(comic_frequency) :
                      Printed(comic_frequency[k].key) = listed[i]
       IN /\ \A k \in 1..Len(comic_frequency) :
               Occurrences(listed, Printed(comic_frequency[k].key))
                 = IF comic_frequency[k].count > 100 THEN 1 ELSE 0
          /\ \A i \in 1..Len(listed) :
               \E k \in 1..Len(comic_frequency) :
                 Printed(comic_frequency[k].key) = listed[i]
          /\ \A i, j \in 1..Len(listed) : i < j => At(i) < At(j)
          /\ PrintsNone(PopularSection(ReportLines))
               <=> \A k \in 1..Len(comic_frequency) :
                     comic_frequency[k].count <= 100

\* C12 witness: a report of an engine that counted one title exactly 100
\* times and two titles more than 100 times.
C12_Witness ==
  /\ op.name = "generate_report_data"
  /\ \E k \in 1..Len(comic_frequency) : comic_frequency[k].count = 100
  /\ Len(Listed(PopularSection(ReportLines))) >= 2

\* C13: filterByCategory("All") returns every row of the table; for any other
\* category it returns exactly the rows whose category equals it by
\* case-sensitive whole-string equality, the empty table when there is none.
C13_FilterByCategory ==
  op.name = "filter_by_genre"
    => /\ result.err = "none"
       /\ result.rows =
            IF op.genre = <<"A", "l", "l">>
            THEN full_data.rows
            ELSE RowsWhere(full_data.rows,
                   {i \in 1..Len(full_data.rows) :
                      /\ "Genre" \in DOMAIN full_data.rows[i]
                      /\ full_data.rows[i]["Genre"] = op.genre})

\* C14: after any sequence of filterByCategory, sortByTitle, manualSearch,
\* advancedSearch and generateReport calls the engine's base table holds the
\* same rows in the same order as at construction: no operation of the
\* engine changes it.
C14_BaseTableUnchanged ==
  [][phase = "ready" => full_data' = full_data]_vars

\* C14 witness: after a recorded search, a filter has returned a table that
\* differs from the base table.
C14_Witness ==
  /\ op.name = "filter_by_genre"
  /\ query_history # <<>>
  /\ result.err = "none"
  /\ result.rows # <<>>
  /\ result.rows # full_data.rows

\* The call is a search that the claim counts as recorded.
IsRecordedSearch(call) ==
  \/ call.name = "manual_search" /\ call.query_str # <<>>
  \/ call.name = "advanced_search" /\ NonEmptyParams(call.search_params) # <<>>

CounterSum(counter) ==
  LET RECURSIVE SumTo(_)
      SumTo(k) == IF k = 0 THEN 0 ELSE SumTo(k - 1) + counter[k].count
  IN SumTo(Len(counter))

\* C15: each manualSearch call with a non-empty query and each advancedSearch
\* call with a non-empty parameter lengthens the history by one and raises
\* the sum of the counters by the number of rows it returns; every counted
\* title is a title of the base table with counter at least 1;
\* filterByCategory, sortByTitle and generateReport change neither the
\* history nor a counter; the history only grows and no counter decreases.
C15_HistoryAndCounters ==
  [][phase = "ready"
       => /\ Len(query_history') =
               Len(query_history) + IF IsRecordedSearch(op') THEN 1 ELSE 0
          /\ CounterSum(comic_frequency') =
               CounterSum(comic_frequency)
               + IF IsRecordedSearch(op') THEN Len(result'.rows) ELSE 0
          /\ \A k \in 1..Len(comic_frequency') :
               /\ comic_frequency'[k].count >= 1
               /\ \E i \in 1..Len(full_data.rows) :
                    full_data.rows[i]["Title"] = comic_frequency'[k].key
          /\ op'.name \in {"filter_by_genre", "sort_by_title",
                           "generate_report_data"}
               => UNCHANGED <<query_history, comic_frequency>>
          /\ SubSeq(query_history', 1, Len(query_history)) = query_history
          /\ \A k \in 1..Len(comic_frequency) :
               CounterGet(comic_frequency', comic_frequency[k].key)
                 >= comic_frequency[k].count]_vars

====
